---- MODULE Spec2Model ----
(***************************************************************************)
(* State machine of the battery applet (cosmic-applet-battery/src/app.rs): *)
(* the CosmicBatteryApplet struct, one action per Message handled by       *)
(* update(), and the pure helpers update_battery, update_display and       *)
(* format_duration.                                                        *)
(*                                                                         *)
(* f64 values are fixed-point integers, One standing for 1.0, so that the  *)
(* comparisons against 0.011, 0.333 and 0.666 are exact.  Strings built by *)
(* format! are sequences of string pieces (an empty piece contributes      *)
(* nothing); numbers are rendered digit by digit.  NaN payloads are not    *)
(* among the inputs.                                                       *)
(***************************************************************************)
EXTENDS Integers, Sequences, FiniteSets, TLC

VARIABLES
    icon_name,            \* String
    display_icon_name,    \* String
    charging_limit,       \* bool
    battery_percent,      \* f64
    on_battery,           \* bool
    time_remaining,       \* Duration, in whole seconds
    kbd_brightness,       \* f64
    screen_brightness,    \* f64
    popup,                \* Option<window::Id>: <<>> or <<id>>
    id_ctr,               \* u128
    screen_sender,        \* Option<UnboundedSender<..>>: "None" or "Some"
    kbd_sender,
    power_profile,        \* Power
    power_profile_sender,
    timeline,             \* cosmic_time::Timeline: current instant and chain
    rx_alive,             \* per channel: is the receiving half still alive
    last,                 \* the Message that update() handled last
    sends,                \* per channel: the tx.send calls of that update()
    command               \* the Command that update() returned

appvars == <<icon_name, display_icon_name, charging_limit, battery_percent,
             on_battery, time_remaining, kbd_brightness, screen_brightness,
             popup, id_ctr, screen_sender, kbd_sender, power_profile,
             power_profile_sender, timeline>>

vars == <<icon_name, display_icon_name, charging_limit, battery_percent,
          on_battery, time_remaining, kbd_brightness, screen_brightness,
          popup, id_ctr, screen_sender, kbd_sender, power_profile,
          power_profile_sender, timeline, rx_alive, last, sends, command>>

(***************************************************************************)
(* Representation of values                                                *)
(***************************************************************************)

\* fixed-point unit: the integer that stands for the f64 1.0
One == 1000

\* bound of the model: popups opened in one run
MaxIdCtr == 2

Power == {"Battery", "Balanced", "Performance"}

Channels == {"kbd", "screen", "profile"}

\* mutant: the upper bound is not applied
f64_clamp_lower_only(x, lo, hi) == IF x < lo THEN lo ELSE x

\* f64::clamp(lo, hi)
f64_clamp(x, lo, hi) == IF x < lo THEN lo ELSE IF x > hi THEN hi ELSE x

\* `brightness as f64 / 100.0` for an i32 brightness
i32_div_100(brightness) == (brightness * One) \div 100

\* `time_to_empty as u64`, defined here for the i64 values that are not
\* negative (a negative one wraps to 2^64 + t, beyond the integers TLC has;
\* the inputs of the model are not negative)
i64_as_u64(t) == CHOOSE u \in {t} : u >= 0

DigitChar == <<"0", "1", "2", "3", "4", "5", "6", "7", "8", "9">>

\* Display of an unsigned integer: "{}"
RECURSIVE Digits(_)
Digits(n) ==
    IF n < 10 THEN <<DigitChar[n + 1]>>
    ELSE Digits(n \div 10) \o <<DigitChar[(n % 10) + 1]>>

\* "{:02}": at least two digits, padded with a zero
Pad2(n) == IF n < 10 THEN <<"0">> \o Digits(n) ELSE Digits(n)

\* fl!("minutes"), fl!("seconds"): the localised unit, one opaque piece each
fl(key) == <<key>>

\* format_duration
format_duration(duration) ==
    LET secs == duration IN
    IF secs > 60
    THEN LET min == secs \div 60 IN
         IF min > 60
         THEN Digits(min \div 60) \o <<":">> \o Pad2(min % 60)
         ELSE Digits(min) \o fl("minutes")
    ELSE Digits(secs) \o fl("seconds")

(***************************************************************************)
(* The applet struct as a record, and the context a handler runs in        *)
(***************************************************************************)

Self ==
    [icon_name |-> icon_name, display_icon_name |-> display_icon_name,
     charging_limit |-> charging_limit, battery_percent |-> battery_percent,
     on_battery |-> on_battery, time_remaining |-> time_remaining,
     kbd_brightness |-> kbd_brightness, screen_brightness |-> screen_brightness,
     popup |-> popup, id_ctr |-> id_ctr, screen_sender |-> screen_sender,
     kbd_sender |-> kbd_sender, power_profile |-> power_profile,
     power_profile_sender |-> power_profile_sender, timeline |-> timeline]

NoSends == [c \in Channels |-> <<>>]

CommandNone == [op |-> "none", id |-> <<>>]

\* entry of update(): nothing sent yet, Command::none() unless a branch returns
Enter(self, rx) == [self |-> self, rx |-> rx, sends |-> NoSends, command |-> CommandNone]

Ctx == Enter(Self, rx_alive)

\* mutant: a send that fails makes the applet forget the sender
send_forgets(st, ch, req) ==
    LET s1 == [st EXCEPT !.sends[ch] = Append(@, [req |-> req, ok |-> st.rx[ch]])]
    IN IF st.rx[ch] THEN s1
       ELSE CASE ch = "kbd" -> [s1 EXCEPT !.self.kbd_sender = "None"]
              [] ch = "screen" -> [s1 EXCEPT !.self.screen_sender = "None"]
              [] ch = "profile" -> [s1 EXCEPT !.self.power_profile_sender = "None"]

\* `let _ = tx.send(req)`: delivered when the receiver is alive, Err otherwise;
\* the result is dropped either way
send(st, ch, req) ==
    [st EXCEPT !.sends[ch] = Append(@, [req |-> req, ok |-> st.rx[ch]])]

(***************************************************************************)
(* CosmicBatteryApplet methods                                             *)
(***************************************************************************)

\* mutant: the results of the 35 and 20 rungs exchanged
battery_bucket_swapped(self) ==
    IF self.battery_percent > 95 * One /\ ~self.charging_limit THEN 100
    ELSE IF self.battery_percent > 80 * One /\ ~self.charging_limit THEN 90
    ELSE IF self.battery_percent > 65 * One THEN 80
    ELSE IF self.battery_percent > 35 * One THEN 35
    ELSE IF self.battery_percent > 20 * One THEN 50
    ELSE IF self.battery_percent > 14 * One THEN 20
    ELSE IF self.battery_percent > 9 * One THEN 10
    ELSE IF self.battery_percent > 5 * One THEN 5
    ELSE 0

\* mutant: the 14 rung compares against 15
battery_bucket_15(self) ==
    IF self.battery_percent > 95 * One /\ ~self.charging_limit THEN 100
    ELSE IF self.battery_percent > 80 * One /\ ~self.charging_limit THEN 90
    ELSE IF self.battery_percent > 65 * One THEN 80
    ELSE IF self.battery_percent > 35 * One THEN 50
    ELSE IF self.battery_percent > 20 * One THEN 35
    ELSE IF self.battery_percent > 15 * One THEN 20
    ELSE IF self.battery_percent > 9 * One THEN 10
    ELSE IF self.battery_percent > 5 * One THEN 5
    ELSE 0

\* the if / else-if ladder of update_battery
battery_bucket(self) ==
    IF self.battery_percent > 95 * One /\ ~self.charging_limit THEN 100
    ELSE IF self.battery_percent > 80 * One /\ ~self.charging_limit THEN 90
    ELSE IF self.battery_percent > 65 * One THEN 80
    ELSE IF self.battery_percent > 35 * One THEN 50
    ELSE IF self.battery_percent > 20 * One THEN 35
    ELSE IF self.battery_percent > 14 * One THEN 20
    ELSE IF self.battery_percent > 9 * One THEN 10
    ELSE IF self.battery_percent > 5 * One THEN 5
    ELSE 0

\* mutant: "charging-" is written when on battery instead of when not
update_battery_inverted(self, percent0, on_battery0) ==
    LET percent == f64_clamp(percent0, 0, 100 * One)
        s1 == [self EXCEPT !.on_battery = on_battery0, !.battery_percent = percent]
        limited == IF s1.charging_limit THEN <<"limited-">> ELSE <<>>
        charging == IF on_battery0 THEN <<"charging-">> ELSE <<>>
    IN [s1 EXCEPT !.icon_name =
            <<"cosmic-applet-battery-level-">> \o Digits(battery_bucket(s1))
                \o <<"-">> \o limited \o charging \o <<"symbolic">>]

update_battery(self, percent0, on_battery0) ==
    LET percent == f64_clamp(percent0, 0, 100 * One)
        s1 == [self EXCEPT !.on_battery = on_battery0, !.battery_percent = percent]
        limited == IF s1.charging_limit THEN <<"limited-">> ELSE <<>>
        charging == IF on_battery0 THEN <<>> ELSE <<"charging-">>
    IN [s1 EXCEPT !.icon_name =
            <<"cosmic-applet-battery-level-">> \o Digits(battery_bucket(s1))
                \o <<"-">> \o limited \o charging \o <<"symbolic">>]

\* mutant: the flag is stored and the icon is left for the next Update
set_charging_limit_stale(self, limit) == [self EXCEPT !.charging_limit = limit]

set_charging_limit(self, limit) ==
    LET s1 == [self EXCEPT !.charging_limit = limit]
    IN update_battery(s1, s1.battery_percent, s1.on_battery)

\* mutant: the "low" rung compares against 0.033
display_bucket_033(self) ==
    IF self.screen_brightness < (11 * One) \div 1000 THEN "off"
    ELSE IF self.screen_brightness < (33 * One) \div 1000 THEN "low"
    ELSE IF self.screen_brightness < (666 * One) \div 1000 THEN "medium"
    ELSE "high"

\* the if / else-if ladder of update_display
display_bucket(self) ==
    IF self.screen_brightness < (11 * One) \div 1000 THEN "off"
    ELSE IF self.screen_brightness < (333 * One) \div 1000 THEN "low"
    ELSE IF self.screen_brightness < (666 * One) \div 1000 THEN "medium"
    ELSE "high"

update_display(self, percent0) ==
    LET percent == f64_clamp(percent0, One \div 100, One)
        s1 == [self EXCEPT !.screen_brightness = percent]
    IN [s1 EXCEPT !.display_icon_name =
            <<"cosmic-applet-battery-display-brightness-">>
                \o <<display_bucket(s1)>> \o <<"-symbolic">>]

(***************************************************************************)
(* update(): one operator per match arm                                    *)
(***************************************************************************)

Get == <<"Get">>

Set(v) == <<"Set", v>>

HandleFrame(st, now) == [st EXCEPT !.self.timeline.now = now]

HandleSetKbdBrightness(st, brightness) ==
    LET s1 == [st EXCEPT !.self.kbd_brightness =
                   f64_clamp(i32_div_100(brightness), 0, One)]
    IN IF s1.self.kbd_sender = "Some"
       THEN send(s1, "kbd", Set(s1.self.kbd_brightness))
       ELSE s1

HandleSetScreenBrightness(st, brightness) ==
    LET s1 == [st EXCEPT !.self =
                   update_display(@, f64_clamp(i32_div_100(brightness),
                                               One \div 100, One))]
    IN IF s1.self.screen_sender = "Some"
       THEN send(s1, "screen", Set(s1.self.screen_brightness))
       ELSE s1

HandleOpenBatterySettings(st) == st

\* mutant: an error makes the applet ask the power-profile daemon again
HandleErrored_retry(st, e) ==
    IF st.self.power_profile_sender = "Some" THEN send(st, "profile", <<"Get">>) ELSE st

HandleErrored(st, e) == st

\* mutant: the popup takes the counter's value from before the increment
HandleTogglePopup_stale_id(st) ==
    IF st.self.popup # <<>>
    THEN [st EXCEPT !.self.popup = <<>>,
                    !.command = [op |-> "destroy_popup", id |-> st.self.popup]]
    ELSE LET s1 == IF st.self.kbd_sender = "Some" THEN send(st, "kbd", <<"Get">>) ELSE st
             s2 == IF s1.self.screen_sender = "Some"
                   THEN send(s1, "screen", <<"Get">>) ELSE s1
             new_id == s2.self.id_ctr
             s3 == [s2 EXCEPT !.self.id_ctr = @ + 1]
             s4 == [s3 EXCEPT !.self.popup = <<new_id>>]
             s5 == IF s4.self.power_profile_sender = "Some"
                   THEN send(s4, "profile", <<"Get">>) ELSE s4
         IN [s5 EXCEPT !.command = [op |-> "get_popup", id |-> <<new_id>>]]

HandleTogglePopup(st) ==
    IF st.self.popup # <<>>
    THEN [st EXCEPT !.self.popup = <<>>,
                    !.command = [op |-> "destroy_popup", id |-> st.self.popup]]
    ELSE LET s1 == IF st.self.kbd_sender = "Some" THEN send(st, "kbd", Get) ELSE st
             s2 == IF s1.self.screen_sender = "Some"
                   THEN send(s1, "screen", Get) ELSE s1
             s3 == [s2 EXCEPT !.self.id_ctr = @ + 1]
             new_id == s3.self.id_ctr
             s4 == [s3 EXCEPT !.self.popup = <<new_id>>]
             s5 == IF s4.self.power_profile_sender = "Some"
                   THEN send(s4, "profile", Get) ELSE s4
         IN [s5 EXCEPT !.command = [op |-> "get_popup", id |-> <<new_id>>]]

HandleUpdate(st, on_battery0, percent, time_to_empty) ==
    LET s1 == update_battery(st.self, percent, on_battery0)
    IN [st EXCEPT !.self = [s1 EXCEPT !.time_remaining = i64_as_u64(time_to_empty)]]

HandleSetChargingLimit(st, chain, enable) ==
    LET s1 == [st.self EXCEPT !.timeline.chain = <<chain>>]
    IN [st EXCEPT !.self = set_charging_limit(s1, enable)]

HandleUpdateKbdBrightness(st, b) == [st EXCEPT !.self.kbd_brightness = b]

\* tx is the sender of a new channel, whose receiver is alive or gone already
HandleInitKbdBacklight(st, tx_alive, brightness) ==
    LET s1 == send([st EXCEPT !.rx["kbd"] = tx_alive], "kbd", Get)
    IN [s1 EXCEPT !.self.kbd_sender = "Some",
                  !.self.kbd_brightness = brightness]

HandleInitScreenBacklight(st, tx_alive, brightness) ==
    LET s1 == send([st EXCEPT !.rx["screen"] = tx_alive], "screen", Get)
        s2 == [s1 EXCEPT !.self.screen_sender = "Some"]
    IN [s2 EXCEPT !.self = update_display(@, brightness)]

HandleUpdateScreenBrightness(st, b) ==
    [st EXCEPT !.self = update_display(@, b)]

HandleInitProfile(st, tx_alive, profile) ==
    [st EXCEPT !.rx["profile"] = tx_alive,
               !.self.power_profile_sender = "Some",
               !.self.power_profile = profile]

HandleProfile(st, profile) ==
    LET s1 == [st EXCEPT !.self.power_profile = profile]
        s2 == IF s1.self.kbd_sender = "Some" THEN send(s1, "kbd", Get) ELSE s1
    IN IF s2.self.screen_sender = "Some" THEN send(s2, "screen", Get) ELSE s2

\* mutant: the selection is shown before the daemon confirms it
HandleSelectProfile_optimistic(st, profile) ==
    LET s1 == [st EXCEPT !.self.power_profile = profile]
    IN IF s1.self.power_profile_sender = "Some"
       THEN send(s1, "profile", <<"Set", profile>>)
       ELSE s1

HandleSelectProfile(st, profile) ==
    IF st.self.power_profile_sender = "Some"
    THEN send(st, "profile", Set(profile))
    ELSE st

Msg(kind, args) == [kind |-> kind, args |-> args]

\* update(): the match on the message
update(st, message) ==
    LET a == message.args IN
    CASE message.kind = "Frame" -> HandleFrame(st, a[1])
      [] message.kind = "SetKbdBrightness" -> HandleSetKbdBrightness(st, a[1])
      [] message.kind = "SetScreenBrightness" -> HandleSetScreenBrightness(st, a[1])
      [] message.kind = "SetChargingLimit" -> HandleSetChargingLimit(st, a[1], a[2])
      [] message.kind = "OpenBatterySettings" -> HandleOpenBatterySettings(st)
      [] message.kind = "Errored" -> HandleErrored(st, a[1])
      [] message.kind = "TogglePopup" -> HandleTogglePopup(st)
      [] message.kind = "Update" -> HandleUpdate(st, a[1], a[2], a[3])
      [] message.kind = "UpdateKbdBrightness" -> HandleUpdateKbdBrightness(st, a[1])
      [] message.kind = "InitKbdBacklight" -> HandleInitKbdBacklight(st, a[1], a[2])
      [] message.kind = "InitScreenBacklight" -> HandleInitScreenBacklight(st, a[1], a[2])
      [] message.kind = "UpdateScreenBrightness" ->
            HandleUpdateScreenBrightness(st, a[1])
      [] message.kind = "InitProfile" -> HandleInitProfile(st, a[1], a[2])
      [] message.kind = "Profile" -> HandleProfile(st, a[1])
      [] message.kind = "SelectProfile" -> HandleSelectProfile(st, a[1])

(***************************************************************************)
(* Steps                                                                   *)
(***************************************************************************)

\* the state after update() returned st
Apply(st) ==
    /\ icon_name' = st.self.icon_name
    /\ display_icon_name' = st.self.display_icon_name
    /\ charging_limit' = st.self.charging_limit
    /\ battery_percent' = st.self.battery_percent
    /\ on_battery' = st.self.on_battery
    /\ time_remaining' = st.self.time_remaining
    /\ kbd_brightness' = st.self.kbd_brightness
    /\ screen_brightness' = st.self.screen_brightness
    /\ popup' = st.self.popup
    /\ id_ctr' = st.self.id_ctr
    /\ screen_sender' = st.self.screen_sender
    /\ kbd_sender' = st.self.kbd_sender
    /\ power_profile' = st.self.power_profile
    /\ power_profile_sender' = st.self.power_profile_sender
    /\ timeline' = st.self.timeline
    /\ rx_alive' = st.rx
    /\ sends' = st.sends
    /\ command' = st.command

\* CosmicBatteryApplet::init: Default::default() but for the two icon names
Init ==
    /\ icon_name = <<"battery-symbolic">>
    /\ display_icon_name = <<"display-brightness-symbolic">>
    /\ charging_limit = FALSE
    /\ battery_percent = 0
    /\ on_battery = FALSE
    /\ time_remaining = 0
    /\ kbd_brightness = 0
    /\ screen_brightness = 0
    /\ popup = <<>>
    /\ id_ctr = 0
    /\ screen_sender = "None"
    /\ kbd_sender = "None"
    /\ power_profile \in Power
    /\ power_profile_sender = "None"
    /\ timeline = [now |-> 0, chain |-> <<>>]
    /\ rx_alive = [c \in Channels |-> TRUE]
    /\ last = Msg("init", <<>>)
    /\ sends = NoSends
    /\ command = CommandNone

\* one step of the event loop: update(message) runs to its end
MsgUpdate(Percents, Times) ==
    \E on_battery0 \in BOOLEAN, percent \in Percents, time_to_empty \in Times :
        /\ last' = Msg("Update", <<on_battery0, percent, time_to_empty>>)
        /\ Apply(update(Ctx, Msg("Update", <<on_battery0, percent, time_to_empty>>)))

MsgSetChargingLimit(Toggles) ==
    \E t \in Toggles :
        /\ last' = Msg("SetChargingLimit", t)
        /\ Apply(update(Ctx, Msg("SetChargingLimit", t)))

MsgFrame(Instants) ==
    \E now \in Instants :
        /\ last' = Msg("Frame", <<now>>)
        /\ Apply(update(Ctx, Msg("Frame", <<now>>)))

MsgSetKbdBrightness(Ints) ==
    \E brightness \in Ints :
        /\ last' = Msg("SetKbdBrightness", <<brightness>>)
        /\ Apply(update(Ctx, Msg("SetKbdBrightness", <<brightness>>)))

MsgSetScreenBrightness(Ints) ==
    \E brightness \in Ints :
        /\ last' = Msg("SetScreenBrightness", <<brightness>>)
        /\ Apply(update(Ctx, Msg("SetScreenBrightness", <<brightness>>)))

MsgOpenBatterySettings ==
    /\ last' = Msg("OpenBatterySettings", <<>>)
    /\ Apply(update(Ctx, Msg("OpenBatterySettings", <<>>)))

MsgErrored(Errors) ==
    \E e \in Errors :
        /\ last' = Msg("Errored", <<e>>)
        /\ Apply(update(Ctx, Msg("Errored", <<e>>)))

\* id_ctr is a u128; the model stops opening popups at MaxIdCtr
MsgTogglePopup ==
    /\ popup = <<>> => id_ctr < MaxIdCtr
    /\ last' = Msg("TogglePopup", <<>>)
    /\ Apply(update(Ctx, Msg("TogglePopup", <<>>)))

MsgUpdateKbdBrightness(Floats) ==
    \E b \in Floats :
        /\ last' = Msg("UpdateKbdBrightness", <<b>>)
        /\ Apply(update(Ctx, Msg("UpdateKbdBrightness", <<b>>)))

MsgInitKbdBacklight(Alive, Floats) ==
    \E tx_alive \in Alive, brightness \in Floats :
        /\ last' = Msg("InitKbdBacklight", <<tx_alive, brightness>>)
        /\ Apply(update(Ctx, Msg("InitKbdBacklight", <<tx_alive, brightness>>)))

MsgInitScreenBacklight(Alive, Floats) ==
    \E tx_alive \in Alive, brightness \in Floats :
        /\ last' = Msg("InitScreenBacklight", <<tx_alive, brightness>>)
        /\ Apply(update(Ctx, Msg("InitScreenBacklight", <<tx_alive, brightness>>)))

MsgUpdateScreenBrightness(Floats) ==
    \E b \in Floats :
        /\ last' = Msg("UpdateScreenBrightness", <<b>>)
        /\ Apply(update(Ctx, Msg("UpdateScreenBrightness", <<b>>)))

MsgInitProfile(Alive, Profiles) ==
    \E tx_alive \in Alive, profile \in Profiles :
        /\ last' = Msg("InitProfile", <<tx_alive, profile>>)
        /\ Apply(update(Ctx, Msg("InitProfile", <<tx_alive, profile>>)))

MsgProfile(Profiles) ==
    \E profile \in Profiles :
        /\ last' = Msg("Profile", <<profile>>)
        /\ Apply(update(Ctx, Msg("Profile", <<profile>>)))

MsgSelectProfile(Profiles) ==
    \E profile \in Profiles :
        /\ last' = Msg("SelectProfile", <<profile>>)
        /\ Apply(update(Ctx, Msg("SelectProfile", <<profile>>)))

SenderOf(ch) ==
    CASE ch = "kbd" -> kbd_sender
      [] ch = "screen" -> screen_sender
      [] ch = "profile" -> power_profile_sender

\* outside the applet: the subscription holding the receiver of a channel ends
DropReceiver ==
    \E ch \in Channels :
        /\ SenderOf(ch) = "Some"
        /\ rx_alive[ch]
        /\ rx_alive' = [rx_alive EXCEPT ![ch] = FALSE]
        /\ UNCHANGED <<appvars, last, sends, command>>

\* what the toggler of view_window can emit: the chain of the new position
ViewToggles == {<<"on", TRUE>>, <<"off", FALSE>>}

(***************************************************************************)
(* The whole applet: every message, over small payload sets, with          *)
(* receivers that go away                                                  *)
(***************************************************************************)

Percents == {97 * One}

Times == {90}

KbdInts == {50}

KbdFloats == {One \div 2}

ScreenInts == {50}

ScreenFloats == {One \div 2}

Instants == {1}

Errors == {"daemon unreachable"}

Next ==
    \/ MsgFrame(Instants)
    \/ MsgSetKbdBrightness(KbdInts)
    \/ MsgSetScreenBrightness(ScreenInts)
    \/ MsgSetChargingLimit(ViewToggles)
    \/ MsgOpenBatterySettings
    \/ MsgErrored(Errors)
    \/ MsgTogglePopup
    \/ MsgUpdate(Percents, Times)
    \/ MsgUpdateKbdBrightness(KbdFloats)
    \/ MsgInitKbdBacklight(BOOLEAN, KbdFloats)
    \/ MsgInitScreenBacklight(BOOLEAN, ScreenFloats)
    \/ MsgUpdateScreenBrightness(ScreenFloats)
    \/ MsgInitProfile(BOOLEAN, Power)
    \/ MsgProfile(Power)
    \/ MsgSelectProfile(Power)
    \/ DropReceiver

Spec == Init /\ [][Next]_vars

(***************************************************************************)
(* The battery messages alone, over a grid of percentages around every     *)
(* threshold and of durations around every unit boundary                   *)
(***************************************************************************)

GridPercents ==
    {t * One + d : t \in {0, 5, 9, 14, 20, 35, 65, 80, 95, 100}, d \in {-1, 0, 1}}
        \cup {-10 * One, 50 * One, 97 * One, 150 * One}

GridTimes == {30, 60, 90, 3600, 3659, 3661}

NextBattery ==
    \/ MsgUpdate(GridPercents, GridTimes)
    \/ MsgSetChargingLimit(ViewToggles)

SpecBattery == Init /\ [][NextBattery]_vars

(***************************************************************************)
(* The brightness messages alone, over brightness values around every      *)
(* threshold and outside [0, 1]                                            *)
(***************************************************************************)

GridFloats ==
    {-One \div 10, 0, (5 * One) \div 1000, One \div 100, (11 * One) \div 1000,
     One \div 5, (332 * One) \div 1000, (333 * One) \div 1000, One \div 2,
     (665 * One) \div 1000, (666 * One) \div 1000, (9 * One) \div 10, One,
     (3 * One) \div 2}

GridInts == {-5, 0, 1, 2, 33, 34, 66, 67, 100, 150}

NextBrightness ==
    \/ MsgSetKbdBrightness({0, 50, 150})
    \/ MsgSetScreenBrightness(GridInts)
    \/ MsgUpdateKbdBrightness({One \div 2, (3 * One) \div 2})
    \/ MsgInitKbdBacklight({TRUE}, {One \div 2, (3 * One) \div 2})
    \/ MsgInitScreenBacklight({TRUE}, GridFloats)
    \/ MsgUpdateScreenBrightness(GridFloats)

SpecBrightness == Init /\ [][NextBrightness]_vars

(***************************************************************************)
(* Out-of-range payloads: the battery and screen messages over values at   *)
(* and beyond the ends of the valid ranges                                 *)
(***************************************************************************)

EdgePercents == {-10 * One, 0, 50 * One, 100 * One, 150 * One}

EdgeFloats == {0, One \div 100, One \div 2}

EdgeInts == {0, 1, 50}

NextClamp ==
    \/ MsgUpdate(EdgePercents, Times)
    \/ MsgSetChargingLimit(ViewToggles)
    \/ MsgSetScreenBrightness(EdgeInts)
    \/ MsgInitScreenBacklight({TRUE}, EdgeFloats)
    \/ MsgUpdateScreenBrightness(EdgeFloats)

SpecClamp == Init /\ [][NextClamp]_vars

(***************************************************************************)
(* Reading an icon name back                                               *)
(***************************************************************************)

IsDigit(c) == \E d \in 1..10 : DigitChar[d] = c

DigitVal(c) == (CHOOSE d \in 1..10 : DigitChar[d] = c) - 1

RECURSIVE ParseNat(_, _, _)
ParseNat(name, i, acc) ==
    IF i <= Len(name) /\ IsDigit(name[i])
    THEN ParseNat(name, i + 1, 10 * acc + DigitVal(name[i]))
    ELSE acc

\* update_battery has written the name
IconDerived(name) == name[1] = "cosmic-applet-battery-level-"

\* the bucket in "cosmic-applet-battery-level-<bucket>-..."
BucketOf(name) == ParseNat(name, 2, 0)

(***************************************************************************)
(* Properties of the battery icon                                          *)
(***************************************************************************)

\* C1: for percentages p1 <= p2 in [0,100] under the same charging limit the
\* bucket derived for p1 is at most the bucket derived for p2: in every state
\* whose icon is derived (p2 the stored percent), deriving the icon for any
\* lower percent gives a bucket that is not greater.
C1_BucketMonotone ==
    IconDerived(icon_name) =>
        \A p1 \in GridPercents :
            (0 <= p1 /\ p1 <= battery_percent) =>
                BucketOf(update_battery(Self, p1, on_battery).icon_name)
                    <= BucketOf(icon_name)

\* C1 witness: with the limit on, a derived icon for 97 percent and a lower
\* percent that falls in a strictly lower bucket.
C1_Witness ==
    /\ IconDerived(icon_name)
    /\ charging_limit
    /\ last.kind = "Update"
    /\ battery_percent = 97 * One
    /\ \E p1 \in GridPercents :
          /\ 0 <= p1 /\ p1 < battery_percent
          /\ BucketOf(update_battery(Self, p1, on_battery).icon_name)
                < BucketOf(icon_name)

\* C2: whenever the charging limit is enabled and the icon has been derived,
\* the bucket encoded in icon_name is at most 80.
C2_LimitedAtMost80 ==
    (charging_limit /\ IconDerived(icon_name)) => BucketOf(icon_name) <= 80

\* C2 witness: the limit was switched on after a percent above 95 had been
\* received, and the icon shows bucket 80.
C2_Witness ==
    /\ last.kind = "SetChargingLimit"
    /\ charging_limit
    /\ battery_percent > 95 * One
    /\ IconDerived(icon_name)
    /\ BucketOf(icon_name) = 80

Thresholds == <<95, 80, 65, 35, 20, 14, 9, 5>>

LadderResults == <<100, 90, 80, 50, 35, 20, 10, 5>>

\* the rungs a percent may take: the first two only without the limit
Rungs(percent, limit) ==
    {i \in 1..Len(Thresholds) :
        percent > Thresholds[i] * One /\ (i > 2 \/ ~limit)}

LadderBucket(percent, limit) ==
    LET R == Rungs(percent, limit)
    IN IF R = {} THEN 0
       ELSE LadderResults[CHOOSE i \in R : \A j \in R : i <= j]

ClampedTo(x, lo, hi) == IF x < lo THEN lo ELSE IF x > hi THEN hi ELSE x

\* C3: the bucket is the result of the first rung of the ladder 95, 80, 65,
\* 35, 20, 14, 9, 5 that the clamped percent exceeds (100 and 90 only without
\* the limit, 0 when no rung is exceeded), and is one of the nine buckets.
C3_Ladder ==
    IconDerived(icon_name) =>
        /\ BucketOf(icon_name) = LadderBucket(battery_percent, charging_limit)
        /\ BucketOf(icon_name) \in {0, 5, 10, 20, 35, 50, 80, 90, 100}
        /\ last.kind = "Update" =>
              BucketOf(icon_name) =
                  LadderBucket(ClampedTo(last.args[2], 0, 100 * One), charging_limit)

\* C3 witness: a percent above 80 with the limit enabled fell through to 80.
C3_Witness ==
    /\ last.kind = "Update"
    /\ last.args[2] = 80 * One + 1
    /\ charging_limit
    /\ BucketOf(icon_name) = 80

\* the format the duration formatter is said to produce
ClaimedFormat(secs) ==
    IF secs >= 3600
    THEN Digits(secs \div 3600) \o <<":">> \o Pad2((secs \div 60) % 60)
    ELSE IF secs >= 60 THEN Digits(secs \div 60) \o fl("minutes")
    ELSE Digits(secs) \o fl("seconds")

\* C4: format_duration gives "H:MM" from 60 minutes on, the minutes form from
\* 60 seconds on and the seconds form below, the boundaries 60 s and 3600 s
\* included.
C4_FormatDuration == format_duration(time_remaining) = ClaimedFormat(time_remaining)

(***************************************************************************)
(* Properties of the brightness values                                     *)
(***************************************************************************)

DisplayDerived(name) == name[1] = "cosmic-applet-battery-display-brightness-"

\* the brightness a screen message carries, as an f64
ScreenPayload(message) ==
    CASE message.kind = "UpdateScreenBrightness" -> message.args[1]
      [] message.kind = "InitScreenBacklight" -> message.args[2]
      [] message.kind = "SetScreenBrightness" -> (message.args[1] * One) \div 100

ScreenKinds == {"UpdateScreenBrightness", "InitScreenBacklight", "SetScreenBrightness"}

ClaimedDisplayBucket(b) ==
    CASE b < (11 * One) \div 1000 -> "off"
      [] b >= (11 * One) \div 1000 /\ b < (333 * One) \div 1000 -> "low"
      [] b >= (333 * One) \div 1000 /\ b < (666 * One) \div 1000 -> "medium"
      [] b >= (666 * One) \div 1000 -> "high"

ClaimedDisplayIcon(b) ==
    <<"cosmic-applet-battery-display-brightness-", ClaimedDisplayBucket(b), "-symbolic">>

\* C5: update_display clamps the brightness to [0.01, 1.0] and names the icon
\* after the bucket: off below 0.011, low below 0.333, medium below 0.666, high
\* otherwise; 0.005 gives off, 0.2 low, 0.5 medium and 0.9 high.
C5_DisplayBucket ==
    /\ DisplayDerived(display_icon_name) =>
          display_icon_name = ClaimedDisplayIcon(screen_brightness)
    /\ last.kind \in ScreenKinds =>
          /\ screen_brightness = ClampedTo(ScreenPayload(last), One \div 100, One)
          /\ display_icon_name =
                ClaimedDisplayIcon(ClampedTo(ScreenPayload(last), One \div 100, One))
    /\ last.kind = "UpdateScreenBrightness" =>
          /\ last.args[1] = (5 * One) \div 1000 => display_icon_name[2] = "off"
          /\ last.args[1] = One \div 5 => display_icon_name[2] = "low"
          /\ last.args[1] = One \div 2 => display_icon_name[2] = "medium"
          /\ last.args[1] = (9 * One) \div 10 => display_icon_name[2] = "high"

\* C5 witness: brightness 0.2 was reported and the icon shows the low bucket.
C5_Witness ==
    /\ last = Msg("UpdateScreenBrightness", <<One \div 5>>)
    /\ screen_brightness = One \div 5
    /\ display_icon_name[2] = "low"

\* C6: a percent of 150 is handled as 100 and one of -10 as 0, and a
\* brightness of 0 as 0.01 by UpdateScreenBrightness, InitScreenBacklight and
\* SetScreenBrightness: from every state the two messages leave the same
\* applet fields.
C6_OutOfRangeAsNearest ==
    /\ \A ob \in BOOLEAN, t \in Times :
          /\ update(Ctx, Msg("Update", <<ob, 150 * One, t>>)).self
                = update(Ctx, Msg("Update", <<ob, 100 * One, t>>)).self
          /\ update(Ctx, Msg("Update", <<ob, -10 * One, t>>)).self
                = update(Ctx, Msg("Update", <<ob, 0, t>>)).self
    /\ update(Ctx, Msg("UpdateScreenBrightness", <<0>>)).self
          = update(Ctx, Msg("UpdateScreenBrightness", <<One \div 100>>)).self
    /\ \A alive \in BOOLEAN :
          update(Ctx, Msg("InitScreenBacklight", <<alive, 0>>)).self
              = update(Ctx, Msg("InitScreenBacklight", <<alive, One \div 100>>)).self
    /\ update(Ctx, Msg("SetScreenBrightness", <<0>>)).self
          = update(Ctx, Msg("SetScreenBrightness", <<1>>)).self
    /\ (last.kind = "Update" /\ last.args[2] = 150 * One) =>
          /\ battery_percent = 100 * One
          /\ icon_name = update_battery(Self, 100 * One, on_battery).icon_name
    /\ (last.kind = "Update" /\ last.args[2] = -10 * One) =>
          /\ battery_percent = 0
          /\ icon_name = update_battery(Self, 0, on_battery).icon_name
    /\ (last.kind \in ScreenKinds /\ ScreenPayload(last) = 0) =>
          /\ screen_brightness = One \div 100
          /\ display_icon_name = update_display(Self, One \div 100).display_icon_name

\* C6 witness: Update carried 150 percent and the applet holds 100 and the
\* icon of a full battery.
C6_Witness ==
    /\ last.kind = "Update"
    /\ last.args[2] = 150 * One
    /\ ~charging_limit
    /\ battery_percent = 100 * One
    /\ BucketOf(icon_name) = 100

\* C7: the stored brightness of the screen and of the keyboard lies in [0, 1]
\* in every reachable state, whatever the messages carried.
C7_BrightnessInRange ==
    /\ 0 <= screen_brightness /\ screen_brightness <= One
    /\ 0 <= kbd_brightness /\ kbd_brightness <= One

(***************************************************************************)
(* Properties of the handlers                                              *)
(***************************************************************************)

\* C8: processing Errored leaves every field of the applet as it was, sends
\* no request on any channel and returns no command.
C8_ErroredOnlyLogs ==
    [][MsgErrored(Errors) =>
          /\ UNCHANGED appvars
          /\ UNCHANGED rx_alive
          /\ sends' = NoSends
          /\ command' = CommandNone]_vars

\* C8 witness: Errored was processed in a state with senders, a popup and a
\* derived icon.
C8_Witness ==
    /\ last.kind = "Errored"
    /\ popup # <<>>
    /\ kbd_sender = "Some" /\ screen_sender = "Some" /\ power_profile_sender = "Some"
    /\ IconDerived(icon_name)

SendingMessages ==
    {Msg("SetKbdBrightness", <<b>>) : b \in KbdInts}
        \cup {Msg("SetScreenBrightness", <<b>>) : b \in ScreenInts}
        \cup {Msg("TogglePopup", <<>>)}
        \cup {Msg("InitKbdBacklight", <<FALSE, b>>) : b \in KbdFloats}
        \cup {Msg("InitScreenBacklight", <<FALSE, b>>) : b \in ScreenFloats}
        \cup {Msg("Profile", <<p>>) : p \in Power}
        \cup {Msg("SelectProfile", <<p>>) : p \in Power}

\* the same message with the receiver of the sender it carries alive
WithAliveTx(message) ==
    IF message.kind \in {"InitKbdBacklight", "InitScreenBacklight"}
    THEN Msg(message.kind, <<TRUE, message.args[2]>>)
    ELSE message

AllAlive == [c \in Channels |-> TRUE]

SomeSendFailed(out) == \E ch \in Channels : \E i \in 1..Len(out[ch]) : ~out[ch][i].ok

\* C9: a handler whose send fails because the receiver is gone completes and
\* leaves the applet in the state, and returns the command, it would have
\* with every receiver alive; with a receiver gone a next message can still
\* be processed.
C9_SendFailureSwallowed ==
    /\ \A m \in SendingMessages :
          LET failed == update(Ctx, m)
              succeeded == update(Enter(Self, AllAlive), WithAliveTx(m))
          IN /\ failed.self = succeeded.self
             /\ failed.command = succeeded.command
             /\ \A ch \in Channels :
                   Len(failed.sends[ch]) = Len(succeeded.sends[ch])
    /\ SomeSendFailed(sends) => ENABLED Next

\* C9 witness: TogglePopup ran with the three senders set and a receiver
\* gone: a send failed and the popup is open.
C9_Witness ==
    /\ last.kind = "TogglePopup"
    /\ SomeSendFailed(sends)
    /\ popup # <<>>
    /\ command.op = "get_popup"

\* C10: power_profile changes only when InitProfile or Profile is processed,
\* and SelectProfile(p) sends Set(p) on the power-profile channel when a
\* sender is set, nothing otherwise, and leaves every field as it was.
C10_ProfileMirrored ==
    [][/\ power_profile' # power_profile =>
             MsgInitProfile(BOOLEAN, Power) \/ MsgProfile(Power)
       /\ \A p \in Power :
             MsgSelectProfile({p}) =>
                 /\ UNCHANGED appvars
                 /\ UNCHANGED rx_alive
                 /\ command' = CommandNone
                 /\ sends' = [NoSends EXCEPT !["profile"] =
                        IF power_profile_sender = "Some"
                        THEN <<[req |-> <<"Set", p>>, ok |-> rx_alive["profile"]]>>
                        ELSE <<>>]]_vars

\* C10 witness: a profile other than the mirrored one was selected with a
\* sender set: Set went out and the mirrored profile is as before.
C10_Witness ==
    /\ last.kind = "SelectProfile"
    /\ power_profile_sender = "Some"
    /\ last.args[1] # power_profile
    /\ sends["profile"] = <<[req |-> <<"Set", last.args[1]>>, ok |-> TRUE]>>

(***************************************************************************)
(* The icon as a function of the stored state                              *)
(***************************************************************************)

\* "cosmic-applet-battery-level-<bucket>-[limited-][charging-]symbolic"
ClaimedIcon(percent, limit, on_bat) ==
    <<"cosmic-applet-battery-level-">> \o Digits(LadderBucket(percent, limit))
        \o <<"-">>
        \o (IF limit THEN <<"limited-">> ELSE <<>>)
        \o (IF ~on_bat THEN <<"charging-">> ELSE <<>>)
        \o <<"symbolic">>

BatteryStep == MsgUpdate(Percents, Times) \/ MsgSetChargingLimit(ViewToggles)

\* C11: once an Update or a SetChargingLimit has been processed, icon_name is
\* the identifier of the stored battery_percent, charging_limit and on_battery
\* (limited- exactly with the limit, charging- exactly when not on battery);
\* SetChargingLimit re-derives it in the same step, and no other message
\* changes icon_name.
C11_IconFollowsState ==
    /\ [](IconDerived(icon_name) =>
            icon_name = ClaimedIcon(battery_percent, charging_limit, on_battery))
    /\ [](~IconDerived(icon_name) =>
            /\ icon_name = <<"battery-symbolic">>
            /\ last.kind \notin {"Update", "SetChargingLimit"})
    /\ [][/\ BatteryStep =>
               icon_name' = ClaimedIcon(battery_percent', charging_limit', on_battery')
          /\ icon_name' # icon_name => BatteryStep]_vars

\* C11 witness: the limit was switched on over a stored 97 percent while
\* charging, and the icon reads level 80, limited, charging at once.
C11_Witness ==
    /\ last.kind = "SetChargingLimit"
    /\ charging_limit
    /\ battery_percent = 97 * One
    /\ ~on_battery
    /\ icon_name = <<"cosmic-applet-battery-level-", "8", "0", "-", "limited-",
                     "charging-", "symbolic">>

(***************************************************************************)
(* The popup                                                               *)
(***************************************************************************)

\* C12: TogglePopup alternates the popup between closed and open, starting
\* closed: with none recorded it adds one to id_ctr and records a popup with
\* the new value as its id, with one recorded it clears it and asks for its
\* destruction.  A recorded popup's id is the counter's value, at least 1 and
\* above the counter's value before (hence above every earlier id), the
\* counter never decreases, and no other message changes popup or id_ctr.
C12_PopupAlternates ==
    /\ popup = <<>> /\ id_ctr = 0
    /\ [](/\ Len(popup) <= 1
          /\ popup # <<>> => (popup[1] = id_ctr /\ popup[1] >= 1))
    /\ [][/\ MsgTogglePopup =>
               IF popup = <<>>
               THEN /\ id_ctr' = id_ctr + 1
                    /\ popup' = <<id_ctr + 1>>
                    /\ command' = [op |-> "get_popup", id |-> <<id_ctr + 1>>]
               ELSE /\ id_ctr' = id_ctr
                    /\ popup' = <<>>
                    /\ command' = [op |-> "destroy_popup", id |-> popup]
          /\ (popup' # popup \/ id_ctr' # id_ctr) => MsgTogglePopup
          /\ id_ctr' >= id_ctr
          /\ (popup' # <<>> /\ popup' # popup) => popup'[1] > id_ctr]_vars

\* C12 witness: a second popup was opened after the first was closed; its id
\* is 2.
C12_Witness ==
    /\ last.kind = "TogglePopup"
    /\ popup = <<2>>
    /\ id_ctr = 2
    /\ command = [op |-> "get_popup", id |-> <<2>>]

====
